---- MODULE Spec2Model ----
(***************************************************************************)
(* The resilience subsystem of campaign-engine (src/src/utils/resilience.js)*)
(* as a state machine: CircuitBreaker, FreeTierRateLimiter,                 *)
(* GracefulDegradationManager and retryWithBackoff, and their composition   *)
(* in getUsersForCampaign (src/src/services/DataServiceClient.js).          *)
(* Every asynchronous method is cut at its await: the part up to the await  *)
(* is one action, the continuation after the awaited promise settles is     *)
(* another, so calls may overlap exactly where the event loop lets them.    *)
(***************************************************************************)
EXTENDS Integers, Sequences, FiniteSets, TLC

\* ------------------------------------------------------------------ bounds
\* Date.now() runs over 0..MaxTime.
MaxTime == 2

\* fire() is called at most MaxRequests times on the breaker.
MaxRequests == 6

\* At most MaxInFlight fire() calls await their operation at the same time.
MaxInFlight == 2

\* The level is changed under a suspended executeWithDegradation call only
\* while that call has invoked at most MaxInvoked variants.
MaxInvoked == 2

\* ------------------------------------------------- JavaScript values, errors
\* The value null (lastFailureTime before any failure).
NoTime == -1

\* Values an operation may resolve to.
Results == {"r1", "r2"}

\* What this.fallback() returns.
FallbackValue == "FALLBACK"

\* No return value or outcome (yet).
NoOutcome == [kind |-> "none", val |-> "none"]

\* Error objects an operation may reject with, named e1..e7; each carries the
\* message ErrorMessage[e], a string written as its sequence of characters.
ErrorMessage ==
  ("e1" :> <<"R","e","q","u","e","s","t"," ","T","i","m","e","o","u","t">>) @@
  ("e2" :> <<"R","a","t","e"," ","L","i","m","i","t"," ","h","i","t">>) @@
  ("e3" :> <<"Q","U","O","T","A"," ","E","X","C","E","E","D","E","D">>) @@
  ("e4" :> <<"T","o","o"," ","M","a","n","y"," ","R","e","q","u","e","s","t","s">>) @@
  ("e5" :> <<"S","e","r","v","i","c","e"," ","U","n","a","v","a","i","l","a","b","l","e">>) @@
  ("e6" :> <<"b","o","o","m">>) @@
  ("e7" :> <<"q","u","o","t","a"," ","u","s","e","d"," ","u","p">>)

Errors == DOMAIN ErrorMessage

UpperCase ==
  <<"A","B","C","D","E","F","G","H","I","J","K","L","M","N","O","P","Q","R","S","T","U","V","W","X","Y","Z">>

LowerCase ==
  <<"a","b","c","d","e","f","g","h","i","j","k","l","m","n","o","p","q","r","s","t","u","v","w","x","y","z">>

\* String.prototype.toLowerCase on the characters used here.
toLowerCase(s) ==
  [i \in 1..Len(s) |->
     IF \E j \in 1..Len(UpperCase) : UpperCase[j] = s[i]
     THEN LowerCase[CHOOSE j \in 1..Len(UpperCase) : UpperCase[j] = s[i]]
     ELSE s[i]]

\* String.prototype.includes: p occurs in s as a contiguous substring.
includes(s, p) ==
  \E i \in 0..(Len(s) - Len(p)) : SubSeq(s, i + 1, i + Len(p)) = p

\* ------------------------------------------------------ FreeTierRateLimiter
\* One day is DayLength steps of the clock; the local midnights are the
\* multiples of DayLength (daylight-saving days of 23 or 25 hours are left out).
DayLength == 2

\* Date.now() runs over 0..MaxQuotaTime while the limiter is observed.
MaxQuotaTime == 5

\* checkQuota and getUsageStats are called at most MaxChecks times.
MaxChecks == 4

Services == {"d1Reads", "d1Writes", "workerRequests", "railwayRequests"}

\* A name that this.quotas, an object literal, inherits from Object.prototype:
\* this.quotas[name] is then a function, which is truthy.
InheritedNames == {"constructor"}

\* The names checkQuota is called with: the keys of this.quotas, and names
\* that are no key of it.
ServiceNames == Services \cup {"other"} \cup InheritedNames

\* const quota = this.quotas[service]; !quota
noQuota(service) ==
  service \notin Services \cup InheritedNames

D1Limit == 90000

RailwayLimit == 100000

\* alerts.warningThreshold and alerts.criticalThreshold, in percent.
WarningThreshold == 80

CriticalThreshold == 95

\* new Date() + 1 day at 00:00:00.000 local time, when Date.now() = t.
getTomorrowMidnight(t) ==
  ((t \div DayLength) + 1) * DayLength

\* this.quotas as the constructor builds it at time t.
FreeTierRateLimiter(t) ==
  [service \in Services |->
     [used      |-> 0,
      limit     |-> IF service = "railwayRequests" THEN RailwayLimit ELSE D1Limit,
      resetTime |-> getTomorrowMidnight(t)]]

\* A mutant of resetQuotasIfNeeded: resetTime advances by one day.
resetQuotasIfNeeded_plusOneDay(quotas, t) ==
  [service \in Services |->
     IF t >= quotas[service].resetTime
     THEN [quotas[service] EXCEPT !.used = 0, !.resetTime = @ + DayLength]
     ELSE quotas[service]]

resetQuotasIfNeeded(quotas, t) ==
  [service \in Services |->
     IF t >= quotas[service].resetTime
     THEN [quotas[service] EXCEPT !.used = 0,
                                  !.resetTime = getTomorrowMidnight(t)]
     ELSE quotas[service]]

\* quota.used / quota.limit >= threshold, for a threshold given in percent.
\* (The quotient of two integers below 2^53 compares with 0.95 and 0.8 in
\* double precision as it does exactly.)
usageAtLeast(quota, percent) ==
  quota.used * 100 >= percent * quota.limit

\* The Error objects checkQuota throws, named after the service.
criticalError(service) ==
  "critical:" \o service

unknownError(service) ==
  "unknown:" \o service

LimiterErrors ==
  {criticalError(service) : service \in Services} \cup
  {unknownError(service) : service \in {sv \in ServiceNames : noQuota(sv)}}

\* The characters of the service names.
nameChars ==
  ("d1Reads" :> <<"d","1","R","e","a","d","s">>) @@
  ("d1Writes" :> <<"d","1","W","r","i","t","e","s">>) @@
  ("workerRequests" :> <<"w","o","r","k","e","r","R","e","q","u","e","s","t","s">>) @@
  ("railwayRequests" :> <<"r","a","i","l","w","a","y","R","e","q","u","e","s","t","s">>) @@
  ("other" :> <<"o","t","h","e","r">>)

Digits == <<"0","1","2","3","4","5","6","7","8","9">>

\* The decimal digits of a natural number.
RECURSIVE decimal(_)
decimal(n) ==
  IF n < 10 THEN <<Digits[n + 1]>>
  ELSE Append(decimal(n \div 10), Digits[(n % 10) + 1])

\* (quota.used / quota.limit * 100).toFixed(1): rounded to tenths.
percentToFixed1(quota) ==
  LET tenths == (quota.used * 2000 + quota.limit) \div (2 * quota.limit) IN
    decimal(tenths \div 10) \o <<".">> \o decimal(tenths % 10)

\* `Critical quota usage for ${service}: ${percent}%`
criticalMessage(service, quota) ==
  <<"C","r","i","t","i","c","a","l"," ","q","u","o","t","a"," ",
    "u","s","a","g","e"," ","f","o","r"," ">> \o nameChars[service] \o
  <<":"," ">> \o percentToFixed1(quota) \o <<"%">>

\* `Unknown service: ${service}`
unknownMessage(service) ==
  <<"U","n","k","n","o","w","n"," ","s","e","r","v","i","c","e",":"," ">> \o
  nameChars[service]

\* The quota record of each service, as built by the constructor, at the first
\* value of used for which checkQuota throws.
firstCritical ==
  [service \in Services |->
     LET quota == FreeTierRateLimiter(0)[service] IN
       [quota EXCEPT !.used =
          CHOOSE u \in 0..quota.limit :
             /\ usageAtLeast([quota EXCEPT !.used = u], CriticalThreshold)
             /\ u > 0 => ~usageAtLeast([quota EXCEPT !.used = u - 1], CriticalThreshold)]]

\* The message of each error of LimiterErrors.
LimiterErrorMessage ==
  [error \in LimiterErrors |->
     IF \E service \in Services : error = criticalError(service)
     THEN LET service == CHOOSE sv \in Services : error = criticalError(sv) IN
            criticalMessage(service, firstCritical[service])
     ELSE unknownMessage(CHOOSE sv \in ServiceNames : error = unknownError(sv))]

\* The Error objects makeRequest rejects with: what fetch throws when the
\* network fails, the timeout, and `HTTP ${status}: ${errorText}` for a
\* status that is not ok.
UpstreamErrorMessage ==
  ("net" :>
    <<"f","e","t","c","h"," ","f","a","i","l","e","d">>) @@
  ("timeout" :>
    <<"R","e","q","u","e","s","t"," ","t","i","m","e","o","u","t"," ","a",
      "f","t","e","r"," ","3","0","0","0","0","m","s">>) @@
  ("http500" :>
    <<"H","T","T","P"," ","5","0","0",":"," ","I","n","t","e","r","n","a",
      "l"," ","S","e","r","v","e","r"," ","E","r","r","o","r">>) @@
  ("http429" :>
    <<"H","T","T","P"," ","4","2","9",":"," ","q","u","o","t","a"," ","e",
      "x","c","e","e","d","e","d">>)

UpstreamErrors == DOMAIN UpstreamErrorMessage

\* new Error(`Campaign targeting failed: ${error.message}`)
wrapped(error) ==
  "failed:" \o error

WrappedErrorMessage ==
  [w \in {wrapped(error) : error \in UpstreamErrors} |->
     LET error == CHOOSE e \in UpstreamErrors : w = wrapped(e) IN
      <<"C","a","m","p","a","i","g","n"," ","t","a","r","g","e","t","i","n",
        "g"," ","f","a","i","l","e","d",":"," ">> \o
       UpstreamErrorMessage[error]]

\* The message of every Error object of the model.
message ==
  ErrorMessage @@ LimiterErrorMessage @@ UpstreamErrorMessage @@
  WrappedErrorMessage

\* checkQuota on a quota that is an inherited function: used / limit is NaN,
\* which no comparison holds for; quota.used++ writes NaN onto the function,
\* no quota record is touched, and the call returns true.
inheritedQuota(q) ==
  [quotas |-> q, kind |-> "return", val |-> "true", warned |-> FALSE]

\* A mutant of checkQuota: the critical threshold is passed only above 95%.
checkQuota_above(quotas, service, t) ==
  LET q == resetQuotasIfNeeded(quotas, t) IN
    IF noQuota(service)
    THEN [quotas |-> q, kind |-> "throw", val |-> unknownError(service),
          warned |-> FALSE]
    ELSE IF service \in InheritedNames
    THEN inheritedQuota(q)
    ELSE IF q[service].used * 100 > CriticalThreshold * q[service].limit
    THEN [quotas |-> q, kind |-> "throw", val |-> criticalError(service),
          warned |-> FALSE]
    ELSE [quotas |-> [q EXCEPT ![service].used = @ + 1],
          kind |-> "return", val |-> "true",
          warned |-> usageAtLeast(q[service], WarningThreshold)]

\* A mutant of checkQuota: the failed check is counted as well.
checkQuota_countsFailure(quotas, service, t) ==
  LET q == resetQuotasIfNeeded(quotas, t) IN
    IF noQuota(service)
    THEN [quotas |-> q, kind |-> "throw", val |-> unknownError(service),
          warned |-> FALSE]
    ELSE IF service \in InheritedNames
    THEN inheritedQuota(q)
    ELSE [quotas |-> [q EXCEPT ![service].used = @ + 1],
          kind |-> IF usageAtLeast(q[service], CriticalThreshold)
                   THEN "throw" ELSE "return",
          val |-> IF usageAtLeast(q[service], CriticalThreshold)
                  THEN criticalError(service) ELSE "true",
          warned |-> usageAtLeast(q[service], WarningThreshold)]

\* checkQuota(service) called at time t: the quotas it leaves, what it
\* returns or throws, and whether it wrote the high-usage warning.
checkQuota(quotas, service, t) ==
  LET q == resetQuotasIfNeeded(quotas, t) IN
    IF noQuota(service)
    THEN [quotas |-> q, kind |-> "throw", val |-> unknownError(service),
          warned |-> FALSE]
    ELSE IF service \in InheritedNames
    THEN inheritedQuota(q)
    ELSE IF usageAtLeast(q[service], CriticalThreshold)
    THEN [quotas |-> q, kind |-> "throw", val |-> criticalError(service),
          warned |-> FALSE]
    ELSE [quotas |-> [q EXCEPT ![service].used = @ + 1],
          kind |-> "return", val |-> "true",
          warned |-> usageAtLeast(q[service], WarningThreshold)]

\* No getUsageStats() result.
NoUsageStats ==
  [service \in Services |->
     [used |-> -1, limit |-> -1, percentage |-> <<>>, remaining |-> -1,
      resetIn |-> -1]]

\* A mutant of getUsageStats: the quotas that are due are not reset first.
getUsageStats_noReset(quotas, t) ==
  [quotas |-> quotas,
   stats  |-> [service \in Services |->
                 [used       |-> quotas[service].used,
                  limit      |-> quotas[service].limit,
                  percentage |-> percentToFixed1(quotas[service]),
                  remaining  |-> quotas[service].limit - quotas[service].used,
                  resetIn    |-> IF quotas[service].resetTime - t > 0
                                 THEN quotas[service].resetTime - t ELSE 0]]]

\* getUsageStats() called at time t: the quotas it leaves and what it returns.
getUsageStats(quotas, t) ==
  LET q == resetQuotasIfNeeded(quotas, t) IN
    [quotas |-> q,
     stats  |-> [service \in Services |->
                   [used       |-> q[service].used,
                    limit      |-> q[service].limit,
                    percentage |-> percentToFixed1(q[service]),
                    remaining  |-> q[service].limit - q[service].used,
                    resetIn    |-> IF q[service].resetTime - t > 0
                                   THEN q[service].resetTime - t ELSE 0]]]

\* --------------------------------------------------------- retryWithBackoff
\* An option that is absent from the options object (undefined).
Undefined == -1

DefaultMaxRetries == 3

DefaultBaseDelay == 1000

DefaultMaxDelay == 10000

DefaultBackoffFactor == 2

\* The options given to retryWithBackoff: numbers, or Undefined.
MaxRetriesOptions == {Undefined, 0, 1, 2}

BaseDelayOptions == {Undefined, 400}

MaxDelayOptions == {Undefined, 1000}

BackoffFactorOptions == {Undefined, 3}

\* options.retryCondition: absent, the one DataServiceClient passes
\* (error => !error.message.includes('quota')) or error => false.
RetryConditionOptions == {"undefined", "notQuota", "never"}

\* The errors with which the retried operation rejects.
RetryErrors == {"e3", "e6", "e7"}

\* Math.random() returns RandomHalves / 2.
RandomHalves == {0, 1}

\* The operation fails on up to MaxFailures invocations before it succeeds.
MaxFailures == 4

includesQuota ==
  [error \in DOMAIN message |-> includes(message[error], <<"q","u","o","t","a">>)]

\* retryCondition(error)
retryCondition(condition, error) ==
  CASE condition = "undefined" -> TRUE
    [] condition = "notQuota"  -> ~includesQuota[error]
    [] condition = "never"     -> FALSE

RECURSIVE pow(_, _)
pow(base, exponent) ==
  IF exponent = 0 THEN 1 ELSE base * pow(base, exponent - 1)

min(a, b) ==
  IF a <= b THEN a ELSE b

\* The destructuring of options with its defaults.
retryOptions(options) ==
  [maxRetries     |-> IF options.maxRetries = Undefined
                      THEN DefaultMaxRetries ELSE options.maxRetries,
   baseDelay      |-> IF options.baseDelay = Undefined
                      THEN DefaultBaseDelay ELSE options.baseDelay,
   maxDelay       |-> IF options.maxDelay = Undefined
                      THEN DefaultMaxDelay ELSE options.maxDelay,
   backoffFactor  |-> IF options.backoffFactor = Undefined
                      THEN DefaultBackoffFactor ELSE options.backoffFactor,
   retryCondition |-> options.retryCondition]

\* A retryWithBackoff call that has not started.
NoRetry ==
  [pc |-> "idle", attempt |-> 0, lastError |-> "undefined", timer |-> 0,
   ret |-> NoOutcome]

\* The body of the for loop from its test on: operation() is invoked and
\* awaited, or the loop ends and lastError is thrown.
retryLoop(r, attempt, o) ==
  IF attempt <= o.maxRetries
  THEN [r EXCEPT !.pc = "operation", !.attempt = attempt, !.timer = 0]
  ELSE [r EXCEPT !.pc = "done", !.attempt = attempt, !.timer = 0,
                 !.ret = [kind |-> "throw", val |-> r.lastError]]

\* retryWithBackoff(operation, options) up to its first await.
retryWithBackoff(o) ==
  retryLoop(NoRetry, 0, o)

\* A mutant of retryResolved: the loop goes on after a success.
retryResolved_continues(r, value, o) ==
  retryLoop(r, r.attempt + 1, o)

\* The awaited operation() resolved with value.
retryResolved(r, value, o) ==
  [r EXCEPT !.pc = "done", !.ret = [kind |-> "return", val |-> value]]

\* A mutant of retryRejected: the error is rethrown at once.
retryRejected_noRetry(r, error, random, o) ==
  [r EXCEPT !.pc = "done", !.lastError = error,
            !.ret = [kind |-> "throw", val |-> error]]

\* A mutant of retryRejected: the error thrown is that of the first attempt.
retryRejected_firstError(r, error, random, o) ==
  LET first == IF r.lastError = "undefined" THEN error ELSE r.lastError
      delay == min(o.baseDelay * pow(o.backoffFactor, r.attempt), o.maxDelay)
  IN
    IF r.attempt = o.maxRetries \/ ~retryCondition(o.retryCondition, error)
    THEN [r EXCEPT !.pc = "done", !.lastError = first,
                   !.ret = [kind |-> "throw", val |-> first]]
    ELSE [r EXCEPT !.pc = "sleeping", !.lastError = first,
                   !.timer = delay + ((random * delay) \div 20)]

\* A mutant of retryRejected: the delay is taken before the test.
retryRejected_delayFirst(r, error, random, o) ==
  LET delay == min(o.baseDelay * pow(o.backoffFactor, r.attempt), o.maxDelay) IN
    [r EXCEPT !.pc = "sleeping", !.lastError = error,
              !.timer = delay + ((random * delay) \div 20)]

\* The awaited operation() rejected with error: the catch block, where
\* Math.random() returns random / 2.
retryRejected(r, error, random, o) ==
  LET delay  == min(o.baseDelay * pow(o.backoffFactor, r.attempt), o.maxDelay)
      jitter == (random * delay) \div 20
  IN
    IF r.attempt = o.maxRetries \/ ~retryCondition(o.retryCondition, error)
    THEN [r EXCEPT !.pc = "done", !.lastError = error,
                   !.ret = [kind |-> "throw", val |-> error]]
    ELSE [r EXCEPT !.pc = "sleeping", !.lastError = error,
                   !.timer = delay + jitter]

\* The timer of setTimeout(resolve, totalDelay) fired: attempt++ and the loop.
retryTimer(r, o) ==
  retryLoop(r, r.attempt + 1, o)

\* ---------------------------------------------------------- CircuitBreaker
quotaErrors ==
  << <<"q","u","o","t","a"," ","e","x","c","e","e","d","e","d">>,
     <<"r","a","t","e"," ","l","i","m","i","t">>,
     <<"t","o","o"," ","m","a","n","y"," ","r","e","q","u","e","s","t","s">>,
     <<"s","e","r","v","i","c","e"," ","u","n","a","v","a","i","l","a","b","l","e">>,
     <<"t","i","m","e","o","u","t">> >>

\* A mutant of shouldUseFallback: the match is case-sensitive.
shouldUseFallback_caseSensitive(error) ==
  \E k \in 1..Len(quotaErrors) : includes(message[error], quotaErrors[k])

\* quotaErrors.some(pattern => message.toLowerCase().includes(pattern)), for
\* each Error object of the model.
matchesQuotaError ==
  [error \in DOMAIN message |->
     \E k \in 1..Len(quotaErrors) :
        includes(toLowerCase(message[error]), quotaErrors[k])]

shouldUseFallback(error) ==
  matchesQuotaError[error]

DefaultFailureThreshold == 5

DefaultResetTimeout == 30000

\* options.failureThreshold and options.resetTimeout as given to the
\* constructor; 0 stands for an absent (or zero) option, which || replaces.
FailureThresholdOptions == {0, 1, 2}

ResetTimeoutOptions == {0, 1, 2}

CircuitBreaker(options) ==
  [ failureThreshold |-> IF options.failureThreshold = 0
                         THEN DefaultFailureThreshold
                         ELSE options.failureThreshold,
    resetTimeout     |-> IF options.resetTimeout = 0
                         THEN DefaultResetTimeout
                         ELSE options.resetTimeout,
    state            |-> "CLOSED",
    failureCount     |-> 0,
    lastFailureTime  |-> NoTime,
    successCount     |-> 0,
    stats            |-> [totalRequests |-> 0, totalFailures |-> 0,
                          totalFallbacks |-> 0] ]

\* Date.now() - this.lastFailureTime; null converts to 0.
elapsedSinceFailure(b, t) ==
  t - (IF b.lastFailureTime = NoTime THEN 0 ELSE b.lastFailureTime)

onSuccess(b) ==
  LET b1 == [b EXCEPT !.failureCount = 0] IN
  IF b1.state = "HALF_OPEN"
  THEN LET b2 == [b1 EXCEPT !.successCount = @ + 1] IN
       IF b2.successCount >= 3 THEN [b2 EXCEPT !.state = "CLOSED"] ELSE b2
  ELSE b1

\* A mutant of onFailure: the breaker opens one failure late.
onFailure_late(b, t) ==
  LET b1 == [b EXCEPT !.failureCount = @ + 1,
                      !.lastFailureTime = t,
                      !.stats.totalFailures = @ + 1] IN
  IF b1.failureCount > b1.failureThreshold
  THEN [b1 EXCEPT !.state = "OPEN"]
  ELSE b1

onFailure(b, t) ==
  LET b1 == [b EXCEPT !.failureCount = @ + 1,
                      !.lastFailureTime = t,
                      !.stats.totalFailures = @ + 1] IN
  IF b1.failureCount >= b1.failureThreshold
  THEN [b1 EXCEPT !.state = "OPEN"]
  ELSE b1

\* Mutants of fireEntry: an open breaker always lets the call through; the
\* timeout test is strict.
fireEntry_noShortCircuit(b, t) ==
  LET b1 == [b EXCEPT !.stats.totalRequests = @ + 1] IN
  IF b1.state = "OPEN"
  THEN [breaker |-> [b1 EXCEPT !.state = "HALF_OPEN", !.successCount = 0],
        invoke  |-> TRUE]
  ELSE [breaker |-> b1, invoke |-> TRUE]

fireEntry_strict(b, t) ==
  LET b1 == [b EXCEPT !.stats.totalRequests = @ + 1] IN
  IF b1.state = "OPEN"
  THEN IF elapsedSinceFailure(b1, t) > b1.resetTimeout
       THEN [breaker |-> [b1 EXCEPT !.state = "HALF_OPEN", !.successCount = 0],
             invoke  |-> TRUE]
       ELSE [breaker |-> [b1 EXCEPT !.stats.totalFallbacks = @ + 1],
             invoke  |-> FALSE]
  ELSE [breaker |-> b1, invoke |-> TRUE]

\* fire() up to its await: the new breaker, and whether operation() is called
\* (invoke) or the fallback is returned at once.
fireEntry(b, t) ==
  LET b1 == [b EXCEPT !.stats.totalRequests = @ + 1] IN
  IF b1.state = "OPEN"
  THEN IF elapsedSinceFailure(b1, t) >= b1.resetTimeout
       THEN [breaker |-> [b1 EXCEPT !.state = "HALF_OPEN", !.successCount = 0],
             invoke  |-> TRUE]
       ELSE [breaker |-> [b1 EXCEPT !.stats.totalFallbacks = @ + 1],
             invoke  |-> FALSE]
  ELSE [breaker |-> b1, invoke |-> TRUE]

\* fire() after operation() resolved with result.
fireResolved(b, result) ==
  [breaker |-> onSuccess(b), ret |-> [kind |-> "return", val |-> result]]

\* fire() after operation() rejected with error: the catch block.
fireRejected(b, t, error) ==
  LET b1 == onFailure(b, t) IN
  IF shouldUseFallback(error)
  THEN [breaker |-> [b1 EXCEPT !.stats.totalFallbacks = @ + 1],
        ret     |-> [kind |-> "return", val |-> FallbackValue]]
  ELSE [breaker |-> b1, ret |-> [kind |-> "throw", val |-> error]]

getStats(b) ==
  [ totalRequests  |-> b.stats.totalRequests,
    totalFailures  |-> b.stats.totalFailures,
    totalFallbacks |-> b.stats.totalFallbacks,
    state          |-> b.state,
    failureCount   |-> b.failureCount ]

\* Mutants of reset: the monitoring totals are zeroed as well; the half-open
\* success counter is kept.
reset_zeroesStats(b) ==
  [b EXCEPT !.state = "CLOSED", !.failureCount = 0,
            !.lastFailureTime = NoTime, !.successCount = 0,
            !.stats = [totalRequests |-> 0, totalFailures |-> 0,
                       totalFallbacks |-> 0]]

reset_keepsSuccessCount(b) ==
  [b EXCEPT !.state = "CLOSED", !.failureCount = 0,
            !.lastFailureTime = NoTime]

\* No getStats() snapshot.
NoStats ==
  [totalRequests |-> -1, totalFailures |-> -1, totalFallbacks |-> -1,
   state |-> "none", failureCount |-> -1]

reset(b) ==
  [b EXCEPT !.state = "CLOSED", !.failureCount = 0,
            !.lastFailureTime = NoTime, !.successCount = 0]

\* ------------------------------------------------ GracefulDegradationManager
NORMAL == 0

REDUCED == 1

MINIMAL == 2

EMERGENCY == 3

Levels == {NORMAL, REDUCED, MINIMAL, EMERGENCY}

\* JavaScript values that variants resolve to and the cache holds: 0 (falsy)
\* and a truthy one; fallbackOptions.emergency is a literal.
Values == {"zero", "a"}

EmergencyValues == {"E"}

\* ToBoolean, as the operator || applies it.
truthy(v) ==
  v \notin {"undefined", "null", "zero"}

\* Cache keys, the ttl arguments of setCachedResult, and the errors variants
\* fail with.
Keys == {"k1", "k2"}

TTLs == {1}

VariantErrors == {"e6"}

\* The constructor: level NORMAL and an empty Map (a function on no key).
GracefulDegradationManager ==
  [currentLevel |-> NORMAL, cache |-> [k \in {} |-> 0]]

setDegradationLevel(m, level) ==
  IF m.currentLevel # level THEN [m EXCEPT !.currentLevel = level] ELSE m

setCachedResult(m, key, data, ttl, t) ==
  [m EXCEPT !.cache = (key :> [data |-> data, expires |-> t + ttl]) @@ @]

\* A mutant of getCachedResult: an entry is still served at its expiry time.
getCachedResult_atExpiry(m, key, t) ==
  IF key \in DOMAIN m.cache /\ m.cache[key].expires >= t
  THEN [value |-> m.cache[key].data, mgr |-> m]
  ELSE [value |-> "null",
        mgr   |-> [m EXCEPT !.cache = [k \in (DOMAIN @) \ {key} |-> @[k]]]]

\* getCachedResult returns a value and may delete the entry: the pair of both.
getCachedResult(m, key, t) ==
  IF key \in DOMAIN m.cache /\ m.cache[key].expires > t
  THEN [value |-> m.cache[key].data, mgr |-> m]
  ELSE [value |-> "null",
        mgr   |-> [m EXCEPT !.cache = [k \in (DOMAIN @) \ {key} |-> @[k]]]]

\* One executeWithDegradation(operation, fallbackOptions) call.
\*   pc        "idle", "dispatch" (the function body is entered, by the caller
\*             or by the recursive call of the catch block), "await"
\*             (suspended on a variant's promise), "done"
\*   operation which variants beside full are supplied, and cacheKey
\*   awaiting  the variant whose promise is pending
\*   inTry     whether that promise is awaited inside the try block (the
\*             promise of `|| operation.full()` is returned without await)
\*   ret       what the call returned, or threw
NoCall ==
  [pc |-> "idle",
   operation |-> [reduced |-> FALSE, minimal |-> FALSE, cacheKey |-> "k1"],
   emergency |-> "E", awaiting |-> "none", inTry |-> FALSE,
   ret |-> NoOutcome]

returned(c, v) ==
  [c EXCEPT !.pc = "done", !.awaiting = "none", !.inTry = FALSE,
            !.ret = [kind |-> "return", val |-> v]]

threw(c, error) ==
  [c EXCEPT !.pc = "done", !.awaiting = "none", !.inTry = FALSE,
            !.ret = [kind |-> "throw", val |-> error]]

\* A mutant of catchBlock: the error is rethrown at every level.
catchBlock_rethrows(m, c, error) ==
  [mgr |-> m, call |-> threw(c, error)]

\* The catch block: escalate and call executeWithDegradation again, or rethrow.
catchBlock(m, c, error) ==
  IF m.currentLevel < EMERGENCY
  THEN [mgr |-> setDegradationLevel(m, m.currentLevel + 1),
        call |-> [c EXCEPT !.pc = "dispatch", !.awaiting = "none", !.inTry = FALSE]]
  ELSE [mgr |-> m, call |-> threw(c, error)]

\* operation.<name>() is called inside the try block. how = "async": it hands
\* back a promise; otherwise how is the error the call itself throws.
callVariant(m, c, name, awaited, how) ==
  IF how = "async"
  THEN [mgr |-> m,
        call |-> [c EXCEPT !.pc = "await", !.awaiting = name, !.inTry = awaited]]
  ELSE catchBlock(m, c, how)

\* A mutant of switchVariant: the EMERGENCY case is missing and falls to the
\* default case, which calls full.
switchVariant_noEmergencyCase(m, c) ==
  CASE m.currentLevel = NORMAL    -> [name |-> "full", awaited |-> TRUE]
    [] m.currentLevel = REDUCED   -> IF c.operation.reduced
                                     THEN [name |-> "reduced", awaited |-> TRUE]
                                     ELSE [name |-> "full", awaited |-> FALSE]
    [] m.currentLevel = MINIMAL   -> IF c.operation.minimal
                                     THEN [name |-> "minimal", awaited |-> TRUE]
                                     ELSE [name |-> "none", awaited |-> FALSE]
    [] OTHER                      -> [name |-> "full", awaited |-> TRUE]

\* The variant the switch calls first at the current level: reduced?.() and
\* minimal?.() call nothing when the variant is not supplied.
switchVariant(m, c) ==
  CASE m.currentLevel = NORMAL    -> [name |-> "full", awaited |-> TRUE]
    [] m.currentLevel = REDUCED   -> IF c.operation.reduced
                                     THEN [name |-> "reduced", awaited |-> TRUE]
                                     ELSE [name |-> "full", awaited |-> FALSE]
    [] m.currentLevel = MINIMAL   -> IF c.operation.minimal
                                     THEN [name |-> "minimal", awaited |-> TRUE]
                                     ELSE [name |-> "none", awaited |-> FALSE]
    [] m.currentLevel = EMERGENCY -> [name |-> "none", awaited |-> FALSE]
    [] OTHER                      -> [name |-> "full", awaited |-> TRUE]

\* A mutant of switchNoVariant: MINIMAL answers as EMERGENCY does.
switchNoVariant_emergencyValue(m, c, t) ==
  LET r == getCachedResult(m, c.operation.cacheKey, t) IN
  [mgr |-> r.mgr,
   call |-> returned(c, IF truthy(r.value) THEN r.value ELSE c.emergency)]

\* The cases of the switch that call no variant: MINIMAL without a minimal
\* variant, and EMERGENCY.
switchNoVariant(m, c, t) ==
  LET r == getCachedResult(m, c.operation.cacheKey, t) IN
  IF m.currentLevel = MINIMAL
  THEN [mgr |-> r.mgr, call |-> returned(c, r.value)]
  ELSE [mgr |-> r.mgr,
        call |-> returned(c, IF truthy(r.value) THEN r.value ELSE c.emergency)]

\* The awaited promise resolved with v: the rest of the return statement.
\* how is the behaviour of operation.full(), should `||` call it.
resumeResolved(m, c, v, how, t) ==
  CASE c.awaiting = "reduced" ->
         IF truthy(v)
         THEN [mgr |-> m, call |-> returned(c, v)]
         ELSE callVariant(m, c, "full", FALSE, how)
    [] c.awaiting = "minimal" ->
         IF truthy(v)
         THEN [mgr |-> m, call |-> returned(c, v)]
         ELSE LET r == getCachedResult(m, c.operation.cacheKey, t) IN
              [mgr |-> r.mgr, call |-> returned(c, r.value)]
    [] OTHER -> [mgr |-> m, call |-> returned(c, v)]

\* The pending promise rejected with error: the catch block when it was
\* awaited inside the try, and the rejection of the call itself when not.
resumeRejected(m, c, error) ==
  IF c.inTry
  THEN catchBlock(m, c, error)
  ELSE [mgr |-> m, call |-> threw(c, error)]

\* -------------------------------------------------------- DataServiceClient
\* getUsersForCampaign is called at most MaxClientCalls times on the client.
MaxClientCalls == 2

\* The requests of a call fail only while it has invoked at most MaxVariants
\* variants.
MaxVariants == 3

ClientFailureThreshold == 5

ClientResetTimeout == 30000

\* The ttl with which getUsersForCampaignFull caches its result.
CacheTTL == 300000

\* The criteria objects of the calls. c1 is one whose reduced and minimal
\* forms differ from it; c2 has the shape of a minimal criteria object already
\* ({limit: 20, filters: {}}), so that all three forms give the same key.
Criteria == {"c1", "c2"}

\* `users-${JSON.stringify(criteria)}` for the criteria object itself, for
\* reducedCriteria and for minimalCriteria.
criteriaKey ==
  ("c1" :> [full |-> "users-c1", reduced |-> "users-c1-reduced",
            minimal |-> "users-c1-minimal"]) @@
  ("c2" :> [full |-> "users-c2", reduced |-> "users-c2",
            minimal |-> "users-c2"])

\* response.users of a response that is ok: a list, or absent.
ResponseUsers == {"users", "undefined"}

\* The literal [] (truthy).
EmptyList == "[]"

\* The options getUsersForCampaignFull gives to retryWithBackoff.
ClientRetryOptions ==
  [maxRetries |-> Undefined, baseDelay |-> Undefined, maxDelay |-> Undefined,
   backoffFactor |-> Undefined, retryCondition |-> "notQuota"]

includesLimit ==
  [error \in DOMAIN message |-> includes(message[error], <<"l","i","m","i","t">>)]

\* One getUsersForCampaign(criteria) call.
\*   pc       "idle"; "request" (makeRequest is pending inside
\*            retryWithBackoff); "sleeping" (the retry timer is pending);
\*            "variant" (the promise of the variant has settled and
\*            executeWithDegradation is to resume); "exec" (the promise of
\*            executeWithDegradation has settled and fire is to resume); "done"
\*   exec     the executeWithDegradation call
\*   key      the key under which getUsersForCampaignFull caches its result
\*   retry    the retryWithBackoff call
\*   settled  how the promise of the variant settled
\*   ret      what getUsersForCampaign returned, or threw
\*   invoked  how many variants the call has invoked (kept by the harness)
\*   raised   how often a step of the call has raised the degradation level
\*            (kept by the harness)
NoClientCall ==
  [pc |-> "idle", criteria |-> "c1", exec |-> NoCall, key |-> "none",
   retry |-> NoRetry, settled |-> NoOutcome, ret |-> NoOutcome, invoked |-> 0,
   raised |-> 0]

\* The constructor's breaker.
ClientBreaker ==
  CircuitBreaker([failureThreshold |-> ClientFailureThreshold,
                  resetTimeout |-> ClientResetTimeout])

\* The operators below take and return the client's components together with
\* the call at hand: w = [breaker, mgr, limiter, call].

\* The promise of the running variant settles.
variantSettles(w, kind, val) ==
  [w EXCEPT !.call.pc = "variant", !.call.retry = NoRetry,
            !.call.settled = [kind |-> kind, val |-> val]]

\* A mutant of getUsersForCampaignFull: the request is sent although the
\* quota check failed.
getUsersForCampaignFull_unchecked(w, key, t) ==
  LET check == checkQuota(w.limiter, "d1Reads", t)
      w1    == [w EXCEPT !.limiter = check.quotas]
  IN
    [w1 EXCEPT !.call.pc = "request", !.call.key = key,
               !.call.retry = retryWithBackoff(retryOptions(ClientRetryOptions))]

\* getUsersForCampaignFull(criteria) up to the pending request, for the
\* criteria object with the given key.
getUsersForCampaignFull(w, key, t) ==
  LET check == checkQuota(w.limiter, "d1Reads", t)
      w1    == [w EXCEPT !.limiter = check.quotas]
  IN
    IF check.kind = "throw"
    THEN variantSettles(w1, "throw", check.val)
    ELSE [w1 EXCEPT !.call.pc = "request", !.call.key = key,
                    !.call.retry = retryWithBackoff(retryOptions(ClientRetryOptions))]

getUsersForCampaignReduced(w, t) ==
  getUsersForCampaignFull(w, criteriaKey[w.call.criteria].reduced, t)

getUsersForCampaignMinimal(w, t) ==
  LET cached == getCachedResult(w.mgr, criteriaKey[w.call.criteria].full, t)
      w1     == [w EXCEPT !.mgr = cached.mgr]
  IN
    IF truthy(cached.value)
    THEN variantSettles(w1, "return", cached.value)
    ELSE getUsersForCampaignFull(w1, criteriaKey[w.call.criteria].minimal, t)

\* operation.<name>()
invokeVariant(w, name, t) ==
  LET w1 == [w EXCEPT !.call.invoked = @ + 1] IN
    CASE name = "full"    ->
           getUsersForCampaignFull(w1, criteriaKey[w.call.criteria].full, t)
      [] name = "reduced" -> getUsersForCampaignReduced(w1, t)
      [] name = "minimal" -> getUsersForCampaignMinimal(w1, t)

\* executeWithDegradation from its switch to its first await, or to its
\* return when the switch calls no variant.
executeWithDegradation(w, t) ==
  LET sv == switchVariant(w.mgr, w.call.exec) IN
    IF sv.name = "none"
    THEN LET r == switchNoVariant(w.mgr, w.call.exec, t) IN
           [w EXCEPT !.mgr = r.mgr, !.call.exec = r.call, !.call.pc = "exec"]
    ELSE LET r == callVariant(w.mgr, w.call.exec, sv.name, sv.awaited, "async") IN
           invokeVariant([w EXCEPT !.mgr = r.mgr, !.call.exec = r.call], sv.name, t)

\* getUsersForCampaign(criteria) up to its first await, or to its return when
\* the breaker answers with the fallback.
getUsersForCampaign(w, criteria, t) ==
  LET entry == fireEntry(w.breaker, t)
      exec  == [NoCall EXCEPT !.pc = "dispatch",
                  !.operation = [reduced |-> TRUE, minimal |-> TRUE,
                                 cacheKey |-> criteriaKey[criteria].full],
                  !.emergency = EmptyList]
      w1    == [w EXCEPT !.breaker = entry.breaker,
                         !.call = [NoClientCall EXCEPT !.criteria = criteria,
                                                       !.exec = exec]]
  IN
    IF entry.invoke
    THEN executeWithDegradation(w1, t)
    ELSE [w1 EXCEPT !.call.pc = "done",
                    !.call.ret = [kind |-> "return", val |-> FallbackValue]]

\* retryWithBackoff returned response: the rest of the try block of
\* getUsersForCampaignFull.
requestReturned(w, responseUsers, t) ==
  LET users == IF truthy(responseUsers) THEN responseUsers ELSE EmptyList IN
    variantSettles([w EXCEPT !.mgr = setCachedResult(@, w.call.key, users, CacheTTL, t)],
                   "return", users)

\* retryWithBackoff threw error: the catch block of getUsersForCampaignFull.
requestThrew(w, error) ==
  variantSettles(
    IF includesQuota[error] \/ includesLimit[error]
    THEN [w EXCEPT !.mgr = setDegradationLevel(@, 1)]
    ELSE w,
    "throw", wrapped(error))

\* The retryWithBackoff call got to the state r. (How long the timer runs
\* plays no part in the client: no clock is kept here.)
retried(w, r, t) ==
  CASE r.pc = "operation" -> [w EXCEPT !.call.pc = "request", !.call.retry = r]
    [] r.pc = "sleeping"  -> [w EXCEPT !.call.pc = "sleeping",
                                       !.call.retry = [r EXCEPT !.timer = 0]]
    [] r.ret.kind = "return" -> requestReturned(w, r.ret.val, t)
    [] OTHER -> requestThrew(w, r.ret.val)

\* executeWithDegradation resumes after the promise of its variant settled.
variantResumes(w, t) ==
  LET r  == IF w.call.settled.kind = "return"
            THEN resumeResolved(w.mgr, w.call.exec, w.call.settled.val, "async", t)
            ELSE resumeRejected(w.mgr, w.call.exec, w.call.settled.val)
      w1 == [w EXCEPT !.mgr = r.mgr, !.call.exec = r.call,
                      !.call.settled = NoOutcome]
  IN
    CASE r.call.pc = "dispatch" -> executeWithDegradation(w1, t)
      [] r.call.pc = "await"    -> invokeVariant(w1, r.call.awaiting, t)
      [] OTHER                  -> [w1 EXCEPT !.call.pc = "exec"]

\* fire resumes after the promise of executeWithDegradation settled.
fireResumes(w, t) ==
  LET r == IF w.call.exec.ret.kind = "return"
           THEN fireResolved(w.breaker, w.call.exec.ret.val)
           ELSE fireRejected(w.breaker, t, w.call.exec.ret.val)
  IN
    [w EXCEPT !.breaker = r.breaker, !.call.pc = "done", !.call.ret = r.ret]

\* ------------------------------------------------------------------- state
VARIABLES
  now,        \* Date.now()
  breaker,    \* the fields of one CircuitBreaker
  pending,    \* number of fire() calls suspended at `await operation()`
  obs,        \* what a test harness around the breaker has observed
  mgr,        \* the fields of one GracefulDegradationManager
  call,       \* the executeWithDegradation call in progress
  seen,       \* what a test harness around the manager has observed
  limiter,    \* this.quotas of one FreeTierRateLimiter
  checked,    \* what a test harness around the limiter has observed
  retry,      \* the locals of one retryWithBackoff call
  tried,      \* the options and the operation given to that call, and what
              \* a test harness around it has observed
  calls,      \* the getUsersForCampaign calls made on one DataServiceClient
  sent        \* what a test harness around the client has observed

vars ==
  <<now, breaker, pending, obs, mgr, call, seen, limiter, checked, retry, tried,
    calls, sent>>

breakerVars == <<breaker, pending, obs>>

degradeVars == <<mgr, call, seen>>

quotaVars == <<limiter, checked>>

retryVars == <<retry, tried>>

clientVars == <<calls, sent>>

\* The variables of the components other than breaker and manager.
otherVars == <<quotaVars, retryVars, clientVars>>

\* obs.step    the last thing that happened to the breaker
\* obs.op      how the operation ended, when the last step completed a fire()
\* obs.ret     what that fire() call returned or threw
\* obs.opCalls how often operation() has been invoked
\* obs.streak  failed operations in a row since the breaker was last CLOSED
\*             with failureCount 0 (-1: the row was broken)
\* obs.run     successes in a row since the breaker last became HALF_OPEN
\* obs.serial  no fire() call so far started while another was suspended
\* obs.stats   the snapshot returned, when the last step was getStats()
ObsInit ==
  [step |-> "new", op |-> NoOutcome, ret |-> NoOutcome, opCalls |-> 0,
   streak |-> 0, run |-> 0, serial |-> TRUE, stats |-> NoStats]

\* seen.escalations  setDegradationLevel calls made by the catch block during
\*                   the current executeWithDegradation call
\* seen.invoked      variants invoked by the current call
\* seen.atEmergency  a variant was invoked by the current call at EMERGENCY
\* seen.quiet        nobody else changed the level while the call was suspended
\* seen.last         the variant invoked last: "pending", or "threw" when the
\*                   call itself threw
\* seen.settled      the promise that settled last: whose, how, with what
\* seen.cached       the key and the result of the last getCachedResult(key)
\*                   call made from outside executeWithDegradation
SeenInit ==
  [escalations |-> 0, invoked |-> 0, atEmergency |-> FALSE, quiet |-> TRUE,
   last |-> [name |-> "none", kind |-> "none"],
   settled |-> [name |-> "none", kind |-> "none", val |-> "none"],
   cached |-> [key |-> "none", value |-> "none"]]

\* The row of failures seen by the harness after a step that left the breaker
\* as b: the step was a failed operation ("failed"), ended the row ("broken":
\* a success, or the call that leaves OPEN) or neither ("kept").
Streak(b, event) ==
  IF b.state = "CLOSED" /\ b.failureCount = 0 THEN 0
  ELSE IF event = "broken" \/ obs.streak < 0 THEN -1
  ELSE IF event = "failed" THEN obs.streak + 1
  ELSE obs.streak

\* checked.op      the last method called on the limiter
\* checked.service the service it was called for
\* checked.kind    "return" or "throw", with checked.val returned or thrown
\* checked.warned  the call wrote the high-usage warning
\* checked.ok      successful checkQuota calls so far
\* checked.calls   counted calls so far
\* checked.stats   what getUsageStats() returned, when it was called last
CheckedInit ==
  [op |-> "none", service |-> "none", kind |-> "none", val |-> "none",
   warned |-> FALSE, ok |-> 0, calls |-> 0, stats |-> NoUsageStats]

\* A breaker, a manager and a limiter on which nothing has been called.
BreakerIdle ==
  /\ breaker = CircuitBreaker([failureThreshold |-> 0, resetTimeout |-> 0])
  /\ pending = 0
  /\ obs = ObsInit

DegradeIdle ==
  /\ mgr = GracefulDegradationManager
  /\ call = NoCall
  /\ seen = SeenInit

QuotaIdle ==
  /\ limiter = FreeTierRateLimiter(0)
  /\ checked = CheckedInit

\* tried.options       the options object given to retryWithBackoff
\* tried.failFirst     the operation fails on its first failFirst invocations
\* tried.value         and resolves to value on the next one
\* tried.invoked       how often operation() has been invoked
\* tried.failed        how many of these invocations have failed
\* tried.firstFailure  the error of the first failed invocation
\* tried.lastFailure   the error of the last failed invocation
\* tried.succeeded     an invocation has succeeded
\* tried.delays        how many timers the call has set
\* tried.afterSuccess  invocations made after one has succeeded
TriedInit(options, failFirst, value) ==
  [options |-> options, failFirst |-> failFirst, value |-> value,
   invoked |-> 0, failed |-> 0, firstFailure |-> "none",
   lastFailure |-> "none", succeeded |-> FALSE, delays |-> 0,
   afterSuccess |-> 0]

\* No retryWithBackoff call is made.
RetryIdle ==
  /\ retry = NoRetry
  /\ tried = TriedInit([maxRetries |-> Undefined, baseDelay |-> Undefined,
                        maxDelay |-> Undefined, backoffFactor |-> Undefined,
                        retryCondition |-> "undefined"], 0, "r1")

\* sent.started   getUsersForCampaign calls made so far
SentInit ==
  [started |-> 0]

\* No getUsersForCampaign call is made.
ClientIdle ==
  /\ calls = [slot \in 1..MaxClientCalls |-> NoClientCall]
  /\ sent = SentInit

InitBreaker ==
  /\ now = 0
  /\ \E ft \in FailureThresholdOptions, rt \in ResetTimeoutOptions :
        breaker = CircuitBreaker([failureThreshold |-> ft, resetTimeout |-> rt])
  /\ pending = 0
  /\ obs = ObsInit
  /\ mgr = GracefulDegradationManager
  /\ call = NoCall
  /\ seen = SeenInit
  /\ QuotaIdle
  /\ RetryIdle
  /\ ClientIdle

\* Time passes.
Tick ==
  /\ now < MaxTime
  /\ now' = now + 1
  /\ UNCHANGED <<breakerVars, degradeVars, otherVars>>

\* fire(operation) on an open breaker within resetTimeout: the fallback.
FireShortCircuit ==
  /\ breaker.stats.totalRequests < MaxRequests
  /\ LET e == fireEntry(breaker, now) IN
       /\ ~e.invoke
       /\ breaker' = e.breaker
       /\ obs' = [obs EXCEPT !.step = "shortCircuit", !.stats = NoStats,
                             !.op = NoOutcome,
                             !.ret = [kind |-> "return", val |-> FallbackValue],
                             !.streak = Streak(e.breaker, "kept")]
  /\ UNCHANGED <<now, pending, degradeVars, otherVars>>

\* fire(operation) that calls operation() and suspends at the await.
FireInvoke ==
  /\ breaker.stats.totalRequests < MaxRequests
  /\ pending < MaxInFlight
  /\ LET e == fireEntry(breaker, now) IN
       /\ e.invoke
       /\ breaker' = e.breaker
       /\ obs' = [obs EXCEPT !.step = IF breaker.state = "OPEN" THEN "probe" ELSE "invoke",
                             !.stats = NoStats, !.op = NoOutcome, !.ret = NoOutcome,
                             !.opCalls = @ + 1,
                             !.streak = Streak(e.breaker,
                                          IF breaker.state = "OPEN" THEN "broken" ELSE "kept"),
                             !.run = IF breaker.state = "OPEN" THEN 0 ELSE @,
                             !.serial = @ /\ pending = 0]
  /\ pending' = pending + 1
  /\ UNCHANGED <<now, degradeVars, otherVars>>

\* A suspended fire() resumes: its operation resolved with r.
FireOpResolves ==
  /\ pending > 0
  /\ \E r \in Results :
       LET f == fireResolved(breaker, r) IN
         /\ breaker' = f.breaker
         /\ obs' = [obs EXCEPT !.step = "resolved",
                               !.stats = NoStats, !.op = [kind |-> "resolved", val |-> r],
                               !.ret = f.ret,
                               !.streak = Streak(f.breaker, "broken"),
                               !.run = @ + 1]
  /\ pending' = pending - 1
  /\ UNCHANGED <<now, degradeVars, otherVars>>

\* A suspended fire() resumes: its operation rejected with error e.
FireOpRejects ==
  /\ pending > 0
  /\ \E e \in Errors :
       LET f == fireRejected(breaker, now, e) IN
         /\ breaker' = f.breaker
         /\ obs' = [obs EXCEPT !.step = "rejected",
                               !.stats = NoStats, !.op = [kind |-> "rejected", val |-> e],
                               !.ret = f.ret,
                               !.streak = Streak(f.breaker, "failed"),
                               !.run = 0]
  /\ pending' = pending - 1
  /\ UNCHANGED <<now, degradeVars, otherVars>>

\* reset()
Reset ==
  /\ breaker' = reset(breaker)
  /\ obs' = [obs EXCEPT !.step = "reset", !.stats = NoStats,
                        !.op = NoOutcome, !.ret = NoOutcome,
                        !.streak = Streak(reset(breaker), "kept")]
  /\ UNCHANGED <<now, pending, degradeVars, otherVars>>

NextBreaker ==
  \/ Tick
  \/ FireShortCircuit
  \/ FireInvoke
  \/ FireOpResolves
  \/ FireOpRejects
  \/ Reset

SpecBreaker == InitBreaker /\ [][NextBreaker]_vars

\* getStats(): the harness keeps the snapshot it returned.
GetStats ==
  /\ obs' = [obs EXCEPT !.step = "getStats", !.op = NoOutcome,
                        !.ret = NoOutcome, !.stats = getStats(breaker)]
  /\ UNCHANGED <<now, breaker, pending, degradeVars, otherVars>>

\* The breaker with its observability surface: fire(), getStats(), reset().
NextStats ==
  \/ Tick
  \/ FireShortCircuit
  \/ FireInvoke
  \/ FireOpResolves
  \/ FireOpRejects
  \/ Reset
  \/ GetStats

SpecStats == InitBreaker /\ [][NextStats]_vars

\* The breaker on which only fire() is called.
NextFire ==
  \/ Tick
  \/ FireShortCircuit
  \/ FireInvoke
  \/ FireOpResolves
  \/ FireOpRejects

SpecFire == InitBreaker /\ [][NextFire]_vars

\* ------------------------------------- GracefulDegradationManager: actions
InitDegrade ==
  /\ now = 0
  /\ breaker = CircuitBreaker([failureThreshold |-> 0, resetTimeout |-> 0])
  /\ pending = 0
  /\ obs = ObsInit
  /\ mgr = GracefulDegradationManager
  /\ call = NoCall
  /\ seen = SeenInit
  /\ QuotaIdle
  /\ RetryIdle
  /\ ClientIdle

TickDegrade ==
  /\ now < MaxTime
  /\ now' = now + 1
  /\ UNCHANGED <<breakerVars, degradeVars, otherVars>>

\* What the harness sees of a step that called operation.<name>().
SeenCall(name, how, next) ==
  [seen EXCEPT !.invoked = @ + 1,
               !.atEmergency = @ \/ mgr.currentLevel = EMERGENCY,
               !.escalations = IF next.mgr.currentLevel # mgr.currentLevel
                               THEN @ + 1 ELSE @,
               !.last = [name |-> name,
                         kind |-> IF how = "async" THEN "pending" ELSE "threw"]]

\* executeWithDegradation(operation, fallbackOptions) is called.
ExecuteStart ==
  /\ call.pc \in {"idle", "done"}
  /\ \E r \in BOOLEAN, mi \in BOOLEAN, k \in Keys, em \in EmergencyValues :
       call' = [NoCall EXCEPT !.pc = "dispatch",
                              !.operation = [reduced |-> r, minimal |-> mi,
                                             cacheKey |-> k],
                              !.emergency = em]
  /\ seen' = SeenInit
  /\ UNCHANGED <<now, breakerVars, mgr, otherVars>>

\* The switch calls a variant.
DispatchVariant ==
  /\ call.pc = "dispatch"
  /\ LET sv == switchVariant(mgr, call) IN
       /\ sv.name # "none"
       /\ \E how \in {"async"} \cup VariantErrors :
            LET next == callVariant(mgr, call, sv.name, sv.awaited, how) IN
              /\ mgr' = next.mgr
              /\ call' = next.call
              /\ seen' = SeenCall(sv.name, how, next)
  /\ UNCHANGED <<now, breakerVars, otherVars>>

\* The switch answers from the cache or with the emergency value.
DispatchNoVariant ==
  /\ call.pc = "dispatch"
  /\ switchVariant(mgr, call).name = "none"
  /\ LET next == switchNoVariant(mgr, call, now) IN
       /\ mgr' = next.mgr
       /\ call' = next.call
  /\ UNCHANGED <<now, breakerVars, seen, otherVars>>

\* The pending variant resolves with v and the call resumes.
VariantResolves ==
  /\ call.pc = "await"
  /\ \E v \in Values, how \in {"async"} \cup VariantErrors :
       LET next == resumeResolved(mgr, call, v, how, now)
           settled == [name |-> call.awaiting, kind |-> "resolved", val |-> v]
       IN
         /\ mgr' = next.mgr
         /\ call' = next.call
         /\ seen' = IF call.awaiting = "reduced" /\ ~truthy(v)
                    THEN [SeenCall("full", how, next) EXCEPT !.settled = settled]
                    ELSE [seen EXCEPT !.settled = settled]
  /\ UNCHANGED <<now, breakerVars, otherVars>>

\* The pending variant rejects with error e and the call resumes.
VariantRejects ==
  /\ call.pc = "await"
  /\ \E e \in VariantErrors :
       LET next == resumeRejected(mgr, call, e) IN
         /\ mgr' = next.mgr
         /\ call' = next.call
         /\ seen' = [seen EXCEPT !.settled = [name |-> call.awaiting,
                                              kind |-> "rejected", val |-> e],
                                 !.escalations =
                                    IF next.mgr.currentLevel # mgr.currentLevel
                                    THEN @ + 1 ELSE @]
  /\ UNCHANGED <<now, breakerVars, otherVars>>

\* setDegradationLevel(level, reason) by the application, between calls.
SetLevelBetweenCalls ==
  /\ call.pc \in {"idle", "done"}
  /\ \E l \in Levels : mgr' = setDegradationLevel(mgr, l)
  /\ UNCHANGED <<now, breakerVars, call, seen, otherVars>>

\* setDegradationLevel(level, reason) while the call is suspended: by the
\* variant it awaits, or by another call site.
SetLevelDuringCall ==
  /\ call.pc = "await"
  /\ seen.invoked <= MaxInvoked
  /\ \E l \in Levels :
       /\ mgr' = setDegradationLevel(mgr, l)
       /\ seen' = [seen EXCEPT !.quiet = @ /\ l = mgr.currentLevel]
  /\ UNCHANGED <<now, breakerVars, call, otherVars>>

\* setCachedResult(key, data, ttl), by a variant or another call site.
SetCachedResult ==
  /\ call.pc # "dispatch"
  /\ \E k \in Keys, d \in Values, ttl \in TTLs :
       mgr' = setCachedResult(mgr, k, d, ttl, now)
  /\ UNCHANGED <<now, breakerVars, call, seen, otherVars>>

NextQuiet ==
  \/ TickDegrade
  \/ ExecuteStart
  \/ DispatchVariant
  \/ DispatchNoVariant
  \/ VariantResolves
  \/ VariantRejects
  \/ SetLevelBetweenCalls
  \/ SetCachedResult

NextDegrade ==
  \/ NextQuiet
  \/ SetLevelDuringCall

SpecDegrade == InitDegrade /\ [][NextDegrade]_vars

\* Every promise settles and every continuation the event loop holds runs;
\* nobody but the call changes the level while it runs.
FairDegrade ==
  /\ InitDegrade
  /\ [][NextQuiet]_vars
  /\ WF_vars(DispatchVariant \/ DispatchNoVariant)
  /\ WF_vars(VariantResolves \/ VariantRejects)

\* getCachedResult(key), by a variant or another call site.
GetCachedResultOf(key) ==
  LET r == getCachedResult(mgr, key, now) IN
    /\ mgr' = r.mgr
    /\ seen' = [seen EXCEPT !.cached = [key |-> key, value |-> r.value]]
    /\ UNCHANGED <<now, breakerVars, call, otherVars>>

GetCachedResult ==
  \E key \in Keys : GetCachedResultOf(key)

\* setCachedResult(key, data, ttl) on a manager that runs no call.
SetCachedResultIdle ==
  /\ call.pc = "idle"
  /\ SetCachedResult

\* The cache of the manager: a TTL map written and read as time passes.
NextCache ==
  \/ TickDegrade
  \/ SetCachedResultIdle
  \/ GetCachedResult

SpecCache == InitDegrade /\ [][NextCache]_vars

\* ----------------------------------------------------- CircuitBreaker claims
\* A fire() call is made in this step.
FireCalled ==
  breaker'.stats.totalRequests = breaker.stats.totalRequests + 1

\* C1: counting from a CLOSED breaker with failureCount 0, while every
\* operation since has failed, getStats() reports OPEN exactly when the number
\* of failures has reached failureThreshold: OPEN after failureThreshold
\* failures in a row, not OPEN after fewer.
C1_OpenExactlyAtThreshold ==
  obs.streak >= 0 =>
    (getStats(breaker).state = "OPEN" <=> obs.streak >= breaker.failureThreshold)

C1_Witness ==
  /\ obs.step = "rejected"
  /\ obs.serial
  /\ breaker.failureThreshold >= 2
  /\ obs.streak = breaker.failureThreshold
  /\ getStats(breaker).state = "OPEN"

\* C2: a fire() call made while the breaker is OPEN and less than resetTimeout
\* after the last failure returns the fallback value, adds one to
\* totalFallbacks, leaves the breaker OPEN and does not invoke the operation.
C2_OpenShortCircuits ==
  [][ ( /\ FireCalled
        /\ breaker.state = "OPEN"
        /\ breaker.lastFailureTime # NoTime
        /\ now - breaker.lastFailureTime < breaker.resetTimeout )
      => ( /\ obs'.opCalls = obs.opCalls
           /\ pending' = pending
           /\ breaker'.stats.totalFallbacks = breaker.stats.totalFallbacks + 1
           /\ obs'.ret = [kind |-> "return", val |-> FallbackValue]
           /\ breaker'.state = "OPEN" ) ]_vars

C2_Witness ==
  /\ obs.step = "shortCircuit"
  /\ breaker.state = "OPEN"
  /\ now - breaker.lastFailureTime < breaker.resetTimeout
  /\ obs.opCalls = breaker.failureThreshold
  /\ breaker.stats.totalFallbacks > 0

\* C3: a failed operation while the breaker is HALF_OPEN puts it back to OPEN
\* and records the time of the failure (calls one after the other).
C3_HalfOpenFailureReopens ==
  [][ ( /\ obs.serial
        /\ breaker.state = "HALF_OPEN"
        /\ obs'.step = "rejected"
        /\ breaker'.stats.totalFailures = breaker.stats.totalFailures + 1 )
      => ( /\ breaker'.state = "OPEN"
           /\ breaker'.lastFailureTime = now ) ]_vars

\* C4: a HALF_OPEN breaker becomes CLOSED (other than by reset()) only when the
\* last three operation outcomes since it became HALF_OPEN are successes
\* (calls one after the other).
C4_ClosesOnlyAfterThreeInARow ==
  [][ ( /\ obs.serial
        /\ breaker.state = "HALF_OPEN"
        /\ breaker'.state = "CLOSED"
        /\ obs'.step # "reset" )
      => obs'.run >= 3 ]_vars

\* C5: a fire() call made while the breaker is OPEN and at least resetTimeout
\* after the last failure makes it HALF_OPEN with successCount 0 and invokes
\* the operation; it does not count a fallback.
C5_ProbeAfterTimeout ==
  [][ ( /\ FireCalled
        /\ breaker.state = "OPEN"
        /\ breaker.lastFailureTime # NoTime
        /\ now - breaker.lastFailureTime >= breaker.resetTimeout )
      => ( /\ breaker'.state = "HALF_OPEN"
           /\ breaker'.successCount = 0
           /\ obs'.opCalls = obs.opCalls + 1
           /\ pending' = pending + 1
           /\ breaker'.stats.totalFallbacks = breaker.stats.totalFallbacks ) ]_vars

C5_Witness ==
  /\ obs.step = "probe"
  /\ breaker.state = "HALF_OPEN"
  /\ breaker.successCount = 0
  /\ pending = 1
  /\ now - breaker.lastFailureTime >= breaker.resetTimeout

\* The errors of Errors whose message contains, whatever the case, one of
\* "quota exceeded", "rate limit", "too many requests", "service unavailable",
\* "timeout": read off the messages, not computed.
FallbackEligible == {"e1", "e2", "e3", "e4", "e5"}

\* C6: a fire() call that invoked the operation returns the operation's result
\* when it resolved, the fallback value when it rejected with a
\* fallback-eligible error, and throws the operation's own error otherwise.
C6_FireOutcome ==
  /\ obs.op.kind = "resolved" =>
       obs.ret = [kind |-> "return", val |-> obs.op.val]
  /\ (obs.op.kind = "rejected" /\ obs.op.val \in FallbackEligible) =>
       obs.ret = [kind |-> "return", val |-> FallbackValue]
  /\ (obs.op.kind = "rejected" /\ obs.op.val \notin FallbackEligible) =>
       obs.ret = [kind |-> "throw", val |-> obs.op.val]

C6_Witness ==
  /\ obs.op = [kind |-> "rejected", val |-> "e3"]
  /\ obs.ret = [kind |-> "return", val |-> FallbackValue]

\* ----------------------------------------- GracefulDegradationManager claims
\* The variant invoked by the call fails in this step: its promise rejects, or
\* the call of the variant throws.
VariantFailed ==
  \/ call.pc = "await" /\ call' # call /\ seen'.settled.kind = "rejected"
  \/ seen'.invoked = seen.invoked + 1 /\ seen'.last.kind = "threw"

\* C7: when the variant invoked fails at a level below EMERGENCY, the call
\* raises the level by one and enters executeWithDegradation again (nobody
\* else having changed the level meanwhile).
C7_FailureEscalates ==
  [][ ( /\ VariantFailed
        /\ seen.quiet
        /\ mgr.currentLevel < EMERGENCY )
      => ( /\ mgr'.currentLevel = mgr.currentLevel + 1
           /\ call'.pc = "dispatch" ) ]_vars

\* C8: when the reduced variant (at REDUCED) or the minimal variant (at
\* MINIMAL) resolves, the call returns the value it resolved with and invokes
\* no further variant.
C8_VariantResultReturned ==
  [][ ( /\ call.pc = "await"
        /\ call.awaiting \in {"reduced", "minimal"}
        /\ call' # call
        /\ seen'.settled.kind = "resolved" )
      => ( /\ call'.pc = "done"
           /\ call'.ret = [kind |-> "return", val |-> seen'.settled.val]
           /\ seen'.invoked = seen.invoked ) ]_vars

\* The cache holds an entry for key that has not expired at time t.
Unexpired(m, key, t) ==
  key \in DOMAIN m.cache /\ t < m.cache[key].expires

\* C9: entered at EMERGENCY, the call invokes no variant and returns the
\* cached data when the cache holds an unexpired entry for cacheKey, and
\* fallbackOptions.emergency when it holds none.
C9_EmergencyAnswer ==
  [][ ( /\ call.pc = "dispatch"
        /\ mgr.currentLevel = EMERGENCY
        /\ call' # call )
      => ( /\ call'.pc = "done"
           /\ seen'.invoked = seen.invoked
           /\ call'.ret =
                [kind |-> "return",
                 val  |-> IF Unexpired(mgr, call.operation.cacheKey, now)
                          THEN mgr.cache[call.operation.cacheKey].data
                          ELSE call.emergency] ) ]_vars

\* C10: while nobody but the call changes the level, a call escalates at most
\* 3 times, invokes no variant at EMERGENCY, and ends.
C10_Terminates ==
  /\ [](call.pc # "idle" => (seen.escalations <= 3 /\ ~seen.atEmergency))
  /\ (call.pc \in {"dispatch", "await"}) ~> (call.pc = "done")

C10_Witness ==
  /\ call.pc = "done"
  /\ seen.escalations = 3
  /\ seen.invoked = 3
  /\ mgr.currentLevel = EMERGENCY

\* ------------------------------------------------ FreeTierRateLimiter: actions
\* The values of used from which the limiter is observed: a new limiter, or
\* one that has served all but one of the checks it admits.
UsedAtStart(service) ==
  {0, firstCritical[service].used - 1}

InitQuota ==
  /\ now = 0
  /\ BreakerIdle
  /\ DegradeIdle
  /\ RetryIdle
  /\ ClientIdle
  /\ \E used \in [Services -> UNION {UsedAtStart(service) : service \in Services}] :
        /\ \A service \in Services : used[service] \in UsedAtStart(service)
        /\ limiter = [service \in Services |->
                        [FreeTierRateLimiter(0)[service] EXCEPT !.used = used[service]]]
  /\ checked = CheckedInit

TickQuota ==
  /\ now < MaxQuotaTime
  /\ now' = now + 1
  /\ UNCHANGED <<breakerVars, degradeVars, otherVars>>

\* What the harness sees of a checkQuota(service) call with result r.
CheckedQuota(service, r, counted) ==
  [op |-> "checkQuota", service |-> service, kind |-> r.kind, val |-> r.val,
   warned |-> r.warned,
   ok |-> IF r.kind = "return" THEN checked.ok + 1 ELSE checked.ok,
   calls |-> checked.calls + counted, stats |-> NoUsageStats]

\* await limiter.checkQuota(service)
CheckQuota ==
  /\ checked.calls < MaxChecks
  /\ \E service \in ServiceNames :
        LET r == checkQuota(limiter, service, now) IN
          /\ limiter' = r.quotas
          /\ checked' = CheckedQuota(service, r, 1)
  /\ UNCHANGED <<now, breakerVars, degradeVars, retryVars, clientVars>>

\* limiter.getUsageStats()
GetUsageStats ==
  /\ checked.calls < MaxChecks
  /\ limiter' = getUsageStats(limiter, now).quotas
  /\ checked' = [checked EXCEPT !.op = "getUsageStats", !.service = "none",
                                !.kind = "return", !.val = "stats",
                                !.warned = FALSE, !.calls = @ + 1,
                                !.stats = getUsageStats(limiter, now).stats]
  /\ UNCHANGED <<now, breakerVars, degradeVars, retryVars, clientVars>>

NextQuota ==
  \/ TickQuota
  \/ CheckQuota
  \/ GetUsageStats

SpecQuota == InitQuota /\ [][NextQuota]_vars

\* A new limiter on which checkQuota is called for one service, again and
\* again within one day.
InitQuotaRun ==
  /\ now = 0
  /\ BreakerIdle
  /\ DegradeIdle
  /\ RetryIdle
  /\ ClientIdle
  /\ QuotaIdle

CheckQuotaRun ==
  /\ \E service \in Services :
        /\ \A other \in Services \ {service} : limiter[other].used = 0
        /\ LET r == checkQuota(limiter, service, now) IN
             /\ limiter' = r.quotas
             /\ checked' = CheckedQuota(service, r, 0)
  /\ UNCHANGED <<now, breakerVars, degradeVars, retryVars, clientVars>>

SpecQuotaRun == InitQuotaRun /\ [][CheckQuotaRun]_vars

\* ------------------------------------------------ FreeTierRateLimiter claims

\* A step is a call of checkQuota or getUsageStats counted by the harness.
LimiterCalled ==
  checked'.calls # checked.calls

\* No quota is due for its reset at the current time.
NoResetDue ==
  \A service \in Services : now < limiter[service].resetTime

\* C12: on a new limiter, with no reset in between, exactly
\* floor(limit * 0.95) checkQuota calls for a service succeed and every later
\* one fails with the critical-usage error: a call succeeds only as one of the
\* first floor(limit * 0.95), and a call fails only after that many successes.
C12_SuccessesBeforeExhaustion ==
  checked.op = "checkQuota" =>
    LET floor95 == (limiter[checked.service].limit * 95) \div 100 IN
      /\ checked.kind = "return" => checked.ok <= floor95
      /\ checked.kind = "throw" =>
           /\ checked.ok = floor95
           /\ checked.val = criticalError(checked.service)

C12_Witness ==
  /\ checked.op = "checkQuota"
  /\ checked.kind = "throw"
  /\ checked.ok = (limiter[checked.service].limit * 95) \div 100
  /\ checked.ok > 0

\* C13 as stated: a call at or after a quota's resetTime sets its used to 0
\* (1 after the check's own increment) and its resetTime to the old resetTime
\* plus one day, however late the call is.
C13_ResetAdvancesOneDay ==
  [][LimiterCalled =>
       \A service \in Services :
          now >= limiter[service].resetTime =>
            /\ limiter'[service].used =
                 IF checked'.op = "checkQuota" /\ checked'.service = service
                 THEN 1 ELSE 0
            /\ limiter'[service].resetTime =
                 limiter[service].resetTime + DayLength]_vars

\* C13, amended: a call at or after a quota's resetTime sets its used to 0
\* (1 after the check's own increment) and its resetTime to the next midnight
\* after the call: the old resetTime plus one day when the call is less than
\* one day late, a later midnight otherwise.
C13_ResetToNextMidnight ==
  [][LimiterCalled =>
       \A service \in Services :
          now >= limiter[service].resetTime =>
            /\ limiter'[service].used =
                 IF checked'.op = "checkQuota" /\ checked'.service = service
                 THEN 1 ELSE 0
            /\ limiter'[service].resetTime % DayLength = 0
            /\ limiter'[service].resetTime > now
            /\ limiter'[service].resetTime - DayLength <= now
            /\ now < limiter[service].resetTime + DayLength =>
                 limiter'[service].resetTime =
                   limiter[service].resetTime + DayLength]_vars

\* The first call on the limiter came a day or more after resetTime.
C13_Witness ==
  /\ checked.calls = 1
  /\ \E service \in Services :
        /\ limiter[service].resetTime > 2 * DayLength
        /\ limiter[service].used <= 1

\* C14: with no reset due, a successful checkQuota(r) adds exactly 1 to r's
\* used and leaves every other used as it was; one that fails with the
\* critical-usage error leaves every used as it was.
C14_OnlySuccessCounts ==
  [][LimiterCalled /\ checked'.op = "checkQuota" /\ NoResetDue =>
       /\ checked'.kind = "return" =>
            \A service \in Services :
               limiter'[service].used =
                 IF service = checked'.service
                 THEN limiter[service].used + 1
                 ELSE limiter[service].used
       /\ checked'.kind = "throw" =>
            \A service \in Services :
               limiter'[service].used = limiter[service].used]_vars

\* A critical-usage failure after a success, with no reset due.
C14_Witness ==
  /\ checked.op = "checkQuota"
  /\ checked.kind = "throw"
  /\ checked.service \in Services
  /\ checked.ok > 0
  /\ NoResetDue
  /\ limiter[checked.service].used = firstCritical[checked.service].used

\* C15: a fire() whose operation rejects with the error checkQuota has just
\* thrown for critical usage returns the fallback value.
C15_QuotaErrorFallsBack ==
  checked.op = "checkQuota" /\ checked.kind = "throw"
    /\ checked.service \in Services =>
      fireRejected(breaker, now, checked.val).ret =
        [kind |-> "return", val |-> FallbackValue]

\* --------------------------------------------------- retryWithBackoff: actions
InitRetry ==
  /\ now = 0
  /\ BreakerIdle
  /\ DegradeIdle
  /\ QuotaIdle
  /\ ClientIdle
  /\ retry = NoRetry
  /\ \E mr \in MaxRetriesOptions, bd \in BaseDelayOptions, md \in MaxDelayOptions,
        bf \in BackoffFactorOptions, rc \in RetryConditionOptions,
        failFirst \in 0..MaxFailures, value \in Results :
        tried = TriedInit([maxRetries |-> mr, baseDelay |-> bd, maxDelay |-> md,
                           backoffFactor |-> bf, retryCondition |-> rc],
                          failFirst, value)

\* What the harness sees when the call has got from retry to next.
Tried(next) ==
  LET invokes == next.pc = "operation" IN
    [tried EXCEPT
       !.invoked = IF invokes THEN @ + 1 ELSE @,
       !.afterSuccess = IF invokes /\ tried.succeeded THEN @ + 1 ELSE @,
       !.delays = IF next.pc = "sleeping" THEN @ + 1 ELSE @]

\* retryWithBackoff(operation, options) is called.
RetryStart ==
  /\ retry.pc = "idle"
  /\ LET next == retryWithBackoff(retryOptions(tried.options)) IN
       /\ retry' = next
       /\ tried' = Tried(next)
  /\ UNCHANGED <<now, breakerVars, degradeVars, quotaVars, clientVars>>

\* The promise of operation() resolves.
OperationResolves ==
  /\ retry.pc = "operation"
  /\ tried.invoked > tried.failFirst
  /\ LET next == retryResolved(retry, tried.value, retryOptions(tried.options)) IN
       /\ retry' = next
       /\ tried' = [Tried(next) EXCEPT !.succeeded = TRUE]
  /\ UNCHANGED <<now, breakerVars, degradeVars, quotaVars, clientVars>>

\* The promise of operation() rejects.
OperationRejects ==
  /\ retry.pc = "operation"
  /\ tried.invoked <= tried.failFirst
  /\ \E error \in RetryErrors, random \in RandomHalves :
        LET next == retryRejected(retry, error, random, retryOptions(tried.options)) IN
          /\ retry' = next
          /\ tried' = [Tried(next) EXCEPT
                         !.failed = @ + 1,
                         !.firstFailure = IF @ = "none" THEN error ELSE @,
                         !.lastFailure = error]
  /\ UNCHANGED <<now, breakerVars, degradeVars, quotaVars, clientVars>>

\* The timer set by the catch block fires.
TimerFires ==
  /\ retry.pc = "sleeping"
  /\ LET next == retryTimer(retry, retryOptions(tried.options)) IN
       /\ retry' = next
       /\ tried' = Tried(next)
  /\ UNCHANGED <<now, breakerVars, degradeVars, quotaVars, clientVars>>

NextRetry ==
  \/ RetryStart
  \/ OperationResolves
  \/ OperationRejects
  \/ TimerFires

SpecRetry == InitRetry /\ [][NextRetry]_vars

\* Promises settle and timers fire.
FairRetry ==
  /\ InitRetry
  /\ [][NextRetry]_vars
  /\ WF_vars(RetryStart)
  /\ WF_vars(OperationResolves)
  /\ WF_vars(OperationRejects)
  /\ WF_vars(TimerFires)

\* ---------------------------------------------------- retryWithBackoff claims

\* options.maxRetries as the caller understands it: 3 when it is absent.
GivenMaxRetries ==
  IF tried.options.maxRetries = Undefined THEN 3 ELSE tried.options.maxRetries

\* The call has returned or thrown.
RetryDone ==
  retry.pc = "done"

\* C17: retryWithBackoff invokes the operation at most maxRetries + 1 times,
\* never again after an invocation has succeeded, and exactly once when
\* maxRetries is 0.
C17_AtMostMaxRetriesPlusOne ==
  /\ tried.invoked <= GivenMaxRetries + 1
  /\ tried.afterSuccess = 0
  /\ tried.succeeded => RetryDone
  /\ retry.pc # "idle" /\ GivenMaxRetries = 0 => tried.invoked = 1

\* Every one of the maxRetries + 1 attempts was made and failed.
C17_Witness ==
  /\ RetryDone
  /\ GivenMaxRetries = 2
  /\ tried.invoked = 3
  /\ tried.failed = 3

\* C18: when the operation fails on its first n invocations and succeeds on
\* the next, maxRetries >= n and retryCondition accepts every error, the call
\* eventually returns the value of the success, the operation having been
\* invoked exactly n + 1 times.
C18_EventuallyReturns ==
  (/\ tried.failFirst <= GivenMaxRetries
   /\ tried.options.retryCondition = "undefined")
    ~> (/\ RetryDone
        /\ retry.ret = [kind |-> "return", val |-> tried.value]
        /\ tried.invoked = tried.failFirst + 1)

\* A success on the third invocation.
C18_Witness ==
  /\ RetryDone
  /\ tried.options.retryCondition = "undefined"
  /\ tried.failFirst = 2
  /\ tried.failed = 2
  /\ retry.ret.kind = "return"

\* C19: the error retryWithBackoff throws is the error of the last attempt
\* it made.
C19_ThrowsLastError ==
  RetryDone /\ retry.ret.kind = "throw" =>
    /\ tried.failed = tried.invoked
    /\ retry.ret.val = tried.lastFailure

\* The call threw after attempts that failed with different errors.
C19_Witness ==
  /\ RetryDone
  /\ retry.ret.kind = "throw"
  /\ tried.failed >= 2
  /\ tried.firstFailure # tried.lastFailure

\* C20: when an attempt fails with an error that retryCondition refuses, or
\* attempt number maxRetries fails, the call rethrows that error in the same
\* step: no timer is set and the operation is never invoked again.
C20_RethrowsAtOnce ==
  [][/\ tried'.failed # tried.failed /\
        (\/ ~retryCondition(tried.options.retryCondition, tried'.lastFailure)
         \/ tried.failed = GivenMaxRetries)
          => /\ RetryDone'
             /\ retry'.ret = [kind |-> "throw", val |-> tried'.lastFailure]
             /\ tried'.delays = tried.delays
             /\ tried'.invoked = tried.invoked
     /\ RetryDone => UNCHANGED retryVars]_vars

\* An error that retryCondition refuses ended the call before the last
\* attempt, after an earlier error was retried.
C20_Witness ==
  /\ RetryDone
  /\ retry.ret = [kind |-> "throw", val |-> "e7"]
  /\ tried.options.retryCondition = "notQuota"
  /\ tried.failed = 2
  /\ tried.delays = 1
  /\ GivenMaxRetries = 3

\* -------------------------------------------------- DataServiceClient: actions
\* A new client, or one whose limiter has served all but one of the d1Reads
\* checks it admits.
InitClient ==
  /\ now = 0
  /\ breaker = ClientBreaker
  /\ pending = 0
  /\ obs = ObsInit
  /\ DegradeIdle
  /\ RetryIdle
  /\ ClientIdle
  /\ checked = CheckedInit
  /\ \E used \in UsedAtStart("d1Reads") :
        limiter = [FreeTierRateLimiter(0) EXCEPT !["d1Reads"].used = used]

\* The client's components together with the call in slot.
World(slot) ==
  [breaker |-> breaker, mgr |-> mgr, limiter |-> limiter, call |-> calls[slot]]

\* The step leaves the client as w, with w.call in slot.
Becomes(slot, w) ==
  /\ breaker' = w.breaker
  /\ mgr' = w.mgr
  /\ limiter' = w.limiter
  /\ calls' = [calls EXCEPT ![slot] =
                 [w.call EXCEPT !.raised =
                    IF w.mgr.currentLevel > mgr.currentLevel THEN @ + 1 ELSE @]]
  /\ sent' = [sent EXCEPT
                !.started = IF calls[slot].pc = "idle" THEN @ + 1 ELSE @]
  /\ UNCHANGED <<now, pending, obs, call, seen, checked, retryVars>>

\* No continuation of a settled promise is waiting in the microtask queue:
\* only then does the event loop deliver a response or fire a timer.
MicrotasksDone ==
  \A slot \in 1..MaxClientCalls : calls[slot].pc \notin {"variant", "exec"}

\* client.getUsersForCampaign(criteria)
GetUsersForCampaign ==
  \E slot \in 1..MaxClientCalls, criteria \in Criteria :
     /\ calls[slot].pc = "idle"
     /\ \A earlier \in 1..(slot - 1) : calls[earlier].pc # "idle"
     /\ Becomes(slot, getUsersForCampaign(World(slot), criteria, now))

\* The data service answers a request with an ok response.
RequestResolves ==
  \E slot \in 1..MaxClientCalls, users \in ResponseUsers :
     /\ MicrotasksDone
     /\ calls[slot].pc = "request"
     /\ Becomes(slot,
                retried(World(slot),
                        retryResolved(calls[slot].retry, users,
                                      retryOptions(ClientRetryOptions)),
                        now))

\* A request fails.
RequestRejects ==
  \E slot \in 1..MaxClientCalls, error \in UpstreamErrors, random \in RandomHalves :
     /\ MicrotasksDone
     /\ calls[slot].pc = "request"
     /\ calls[slot].invoked <= MaxVariants
     /\ Becomes(slot,
                retried(World(slot),
                        retryRejected(calls[slot].retry, error, random,
                                      retryOptions(ClientRetryOptions)),
                        now))

\* The retry timer of a call fires.
RetryTimerFires ==
  \E slot \in 1..MaxClientCalls :
     /\ MicrotasksDone
     /\ calls[slot].pc = "sleeping"
     /\ Becomes(slot,
                retried(World(slot),
                        retryTimer(calls[slot].retry,
                                   retryOptions(ClientRetryOptions)),
                        now))

\* executeWithDegradation resumes.
VariantResumes ==
  \E slot \in 1..MaxClientCalls :
     /\ calls[slot].pc = "variant"
     /\ Becomes(slot, variantResumes(World(slot), now))

\* fire resumes.
FireResumes ==
  \E slot \in 1..MaxClientCalls :
     /\ calls[slot].pc = "exec"
     /\ Becomes(slot, fireResumes(World(slot), now))

NextClient ==
  \/ GetUsersForCampaign
  \/ RequestResolves
  \/ RequestRejects
  \/ RetryTimerFires
  \/ VariantResumes
  \/ FireResumes

SpecClient == InitClient /\ [][NextClient]_vars

\* client.getUsersForCampaign(criteria), called when no earlier call is
\* still running.
GetUsersForCampaignAlone ==
  /\ \A slot \in 1..MaxClientCalls : calls[slot].pc \in {"idle", "done"}
  /\ GetUsersForCampaign

\* The client whose calls do not overlap: each is awaited before the next.
NextSerial ==
  \/ GetUsersForCampaignAlone
  \/ RequestResolves
  \/ RequestRejects
  \/ RetryTimerFires
  \/ VariantResumes
  \/ FireResumes

SpecSerial == InitClient /\ [][NextSerial]_vars

\* --------------------------------------------------- DataServiceClient claims
\* C11: during getUsersForCampaign calls the degradation level is never
\* lowered.
C11_LevelNeverLowered ==
  [][mgr'.currentLevel >= mgr.currentLevel]_vars

\* C16: no getUsersForCampaign call rejects: each one that ends returns a
\* user list, a cached list, the emergency value or the fallback value.
C16_NeverRejects ==
  \A slot \in 1..MaxClientCalls :
     calls[slot].pc = "done" =>
       /\ calls[slot].ret.kind = "return"
       /\ calls[slot].ret.val \in {"users", EmptyList, FallbackValue}

\* ------------------------------------------------- CircuitBreaker: statistics
\* C21: totalRequests, totalFailures and totalFallbacks never decrease across
\* fire(), getStats() and reset() calls (nor when a suspended fire() resumes),
\* totalRequests grows by exactly 1 in every fire() call and in no other step,
\* and getStats() reports the three totals as they are.
C21_StatsNeverDecrease ==
  [][ /\ breaker'.stats.totalRequests >= breaker.stats.totalRequests
      /\ breaker'.stats.totalFailures >= breaker.stats.totalFailures
      /\ breaker'.stats.totalFallbacks >= breaker.stats.totalFallbacks
      /\ breaker'.stats.totalRequests =
           breaker.stats.totalRequests +
             (IF FireShortCircuit \/ FireInvoke THEN 1 ELSE 0)
      /\ obs'.step = "getStats" =>
           /\ obs'.stats.totalRequests = breaker.stats.totalRequests
           /\ obs'.stats.totalFailures = breaker.stats.totalFailures
           /\ obs'.stats.totalFallbacks = breaker.stats.totalFallbacks ]_vars

\* reset() has just been called on a breaker all of whose totals are positive
\* and that was not CLOSED with failureCount 0 long ago: a fire() call is
\* still suspended.
C21_Witness ==
  /\ obs.step = "reset"
  /\ breaker.stats.totalRequests >= 3
  /\ breaker.stats.totalFailures >= 1
  /\ breaker.stats.totalFallbacks >= 1
  /\ pending > 0

\* C22 as stated: after reset() the state is CLOSED and every counter is zero,
\* the three totals reported by getStats() included.
C22_ResetZeroesEverything ==
  [][ (obs.step = "reset" /\ GetStats) =>
        /\ obs'.stats.state = "CLOSED"
        /\ obs'.stats.failureCount = 0
        /\ breaker.successCount = 0
        /\ obs'.stats.totalRequests = 0
        /\ obs'.stats.totalFailures = 0
        /\ obs'.stats.totalFallbacks = 0 ]_vars

\* C22: reset() leaves the breaker CLOSED with failureCount 0, the half-open
\* success counter 0 and no last-failure time, and leaves totalRequests,
\* totalFailures and totalFallbacks as they were; getStats() called next
\* reports CLOSED, failureCount 0 and the totals of before the reset.
C22_ResetKeepsTotals ==
  [][ /\ Reset =>
           /\ breaker'.state = "CLOSED"
           /\ breaker'.failureCount = 0
           /\ breaker'.successCount = 0
           /\ breaker'.lastFailureTime = NoTime
           /\ breaker'.stats = breaker.stats
      /\ (obs.step = "reset" /\ GetStats) =>
           /\ obs'.stats.state = "CLOSED"
           /\ obs'.stats.failureCount = 0
           /\ breaker.successCount = 0
           /\ obs'.stats.totalRequests = breaker.stats.totalRequests
           /\ obs'.stats.totalFailures = breaker.stats.totalFailures
           /\ obs'.stats.totalFallbacks = breaker.stats.totalFallbacks ]_vars

\* reset() has just been called on a breaker that had counted several
\* requests, a failure, a fallback and the success of a probe.
C22_Witness ==
  /\ obs.step = "reset"
  /\ obs.run >= 1
  /\ breaker.state = "CLOSED"
  /\ breaker.successCount = 0
  /\ breaker.stats.totalRequests >= 3
  /\ breaker.stats.totalFailures >= 1
  /\ breaker.stats.totalFallbacks >= 1

\* ------------------------------------------ CircuitBreaker: overlapping calls
\* C30: whenever the breaker is OPEN its failureCount is at least
\* failureThreshold and its last-failure time is set, for every sequence of
\* fire() calls, overlapping ones included.
C30_OpenHasCountedFailures ==
  breaker.state = "OPEN" =>
    /\ breaker.failureCount >= breaker.failureThreshold
    /\ breaker.lastFailureTime # NoTime

\* --------------------------------------- FreeTierRateLimiter: unknown names
\* C23: checkQuota called with a name that has no quota record throws an
\* error that is not the critical-usage error of any service and whose
\* message differs from each of theirs, and increments no used counter.
C23_UnknownNameFails ==
  [][ ( /\ LimiterCalled
        /\ checked'.op = "checkQuota"
        /\ checked'.service \notin Services )
      => /\ checked'.kind = "throw"
         /\ \A service \in Services :
               /\ checked'.val # criticalError(service)
               /\ message[checked'.val] # message[criticalError(service)]
               /\ limiter'[service].used <= limiter[service].used ]_vars

\* -------------------------------------- FreeTierRateLimiter: getUsageStats
\* C26: getUsageStats() called at or after a quota's resetTime, with no call
\* on the limiter since that time, reports used = 0 and remaining = limit for
\* that service, whatever its used was.
C26_StatsAfterReset ==
  [][ (LimiterCalled /\ checked'.op = "getUsageStats") =>
        \A service \in Services :
           now >= limiter[service].resetTime =>
             /\ checked'.stats[service].used = 0
             /\ checked'.stats[service].remaining = limiter[service].limit
             /\ checked'.stats[service].limit = limiter[service].limit ]_vars

\* The first call on the limiter was getUsageStats(), a day or more after
\* construction: it reset every quota and reported used = 0 for each.
C26_Witness ==
  /\ checked.op = "getUsageStats"
  /\ checked.calls = 1
  /\ \A service \in Services :
        /\ checked.stats[service].used = 0
        /\ checked.stats[service].remaining = limiter[service].limit
        /\ limiter[service].resetTime > DayLength

\* ------------------------------------------ GracefulDegradationManager: cache
\* C24: getCachedResult(key) returns the stored data and leaves the cache as
\* it is when the cache holds an entry for key and the current time is
\* strictly before its expiry; otherwise it returns null and the cache holds
\* no entry for key afterwards, the other entries being left as they are.
C24_CacheRead ==
  [][ \A key \in Keys :
        GetCachedResultOf(key) =>
          IF key \in DOMAIN mgr.cache /\ now < mgr.cache[key].expires
          THEN /\ seen'.cached.value = mgr.cache[key].data
               /\ mgr'.cache = mgr.cache
          ELSE /\ seen'.cached.value = "null"
               /\ key \notin DOMAIN mgr'.cache
               /\ \A other \in Keys \ {key} :
                     /\ other \in DOMAIN mgr'.cache <=> other \in DOMAIN mgr.cache
                     /\ other \in DOMAIN mgr.cache =>
                          mgr'.cache[other] = mgr.cache[other] ]_vars

\* After time has passed, a read returned null and left no entry for its key,
\* while the unexpired entry of another key was kept.
C24_Witness ==
  /\ seen.cached.key \in Keys
  /\ seen.cached.value = "null"
  /\ seen.cached.key \notin DOMAIN mgr.cache
  /\ \E other \in Keys \ {seen.cached.key} :
        /\ other \in DOMAIN mgr.cache
        /\ mgr.cache[other].expires > now
  /\ now = 1

\* C25: entered at MINIMAL with no minimal variant and no unexpired cache
\* entry for cacheKey, executeWithDegradation returns null, invokes no
\* variant, raises no error and leaves the level as it is.
C25_MinimalWithoutVariant ==
  [][ ( /\ call.pc = "dispatch"
        /\ mgr.currentLevel = MINIMAL
        /\ ~call.operation.minimal
        /\ ~Unexpired(mgr, call.operation.cacheKey, now)
        /\ call' # call )
      => ( /\ call'.pc = "done"
           /\ call'.ret = [kind |-> "return", val |-> "null"]
           /\ seen'.invoked = seen.invoked
           /\ mgr'.currentLevel = mgr.currentLevel ) ]_vars

\* After time has passed, a call entered at MINIMAL without a minimal variant
\* has returned null, and the cache holds no entry for its cacheKey.
C25_Witness ==
  /\ call.pc = "done"
  /\ seen.invoked = 0
  /\ ~call.operation.minimal
  /\ mgr.currentLevel = MINIMAL
  /\ call.ret = [kind |-> "return", val |-> "null"]
  /\ call.operation.cacheKey \notin DOMAIN mgr.cache
  /\ now > 0

C28_QuotaBeforeRequest ==
  [][ \A slot \in 1..MaxClientCalls :
        calls'[slot] # calls[slot] =>
          LET sends == calls'[slot].pc = "request" /\ calls[slot].pc # "request"
              again == sends /\ calls[slot].pc = "sleeping"
              first == sends /\ ~again
              units == limiter'["d1Reads"].used -
                         resetQuotasIfNeeded(limiter, now)["d1Reads"].used
          IN
            /\ units = IF first THEN 1 ELSE 0
            /\ first => calls'[slot].invoked = calls[slot].invoked + 1
            /\ again => /\ calls'[slot].invoked = calls[slot].invoked
                        /\ calls'[slot].retry.attempt > 0 ]_vars

\* A call took the last unit below the critical threshold and is waiting to
\* retry its request, while the variant of a second call has failed in
\* checkQuota without sending a request: the quota stands at the critical
\* value.
C28_Witness ==
  /\ calls[1].pc = "sleeping"
  /\ calls[1].invoked = 1
  /\ calls[2].pc = "variant"
  /\ calls[2].invoked = 1
  /\ calls[2].settled = [kind |-> "throw", val |-> criticalError("d1Reads")]
  /\ limiter["d1Reads"].used = firstCritical["d1Reads"].used

\* --------------------------------------- DataServiceClient: calls in sequence
\* C29: while the getUsersForCampaign calls on a client do not overlap, its
\* breaker records no failure: totalFailures is 0 and the state is CLOSED,
\* with failureCount 0, whatever the requests return or throw.
C29_BreakerSeesNoFailure ==
  /\ breaker.stats.totalFailures = 0
  /\ breaker.failureCount = 0
  /\ breaker.state = "CLOSED"

\* Two calls in sequence have ended: the first went through a failing variant
\* at every level and left the level at EMERGENCY, the second was answered
\* with the emergency value; the breaker counted two requests.
C29_Witness ==
  /\ calls[1].pc = "done"
  /\ calls[1].invoked >= 3
  /\ calls[2].pc = "done"
  /\ calls[2].invoked = 0
  /\ calls[2].ret = [kind |-> "return", val |-> EmptyList]
  /\ mgr.currentLevel = EMERGENCY
  /\ breaker.stats.totalRequests = 2

====
